---- MODULE Spec2Model ----
(***************************************************************************)
(* The Christmas-App service worker (app/static/sw.js, cache generation    *)
(* "christmas-cache-v4") together with the earlier version of the same     *)
(* worker script (cache generation "christmas-cache-v1"), run by a browser *)
(* under one registration.  The handlers are translated step by step: an   *)
(* action is either the synchronous part of a handler or the settling of   *)
(* one of the promises it awaits.                                          *)
(***************************************************************************)
EXTENDS Integers, Sequences, FiniteSets, TLC

\* ------------------------------------------------------------------ bounds
MaxRequests == 2      \* fetch events dispatched in one behaviour
MaxAttempts == 2      \* install attempts per worker version

\* --------------------------------------------------------------- constants
W1 == "v1"            \* the earlier worker script
W4 == "v4"            \* app/static/sw.js
Workers == {W1, W4}

CACHE_NAME == "christmas-cache-v4"
OLD_CACHE_NAME == "christmas-cache-v1"

ASSETS == <<"/", "/about", "/static/styles.css?v=3", "/manifest.webmanifest">>
OLD_ASSETS == <<"/", "/static/styles.css", "/manifest.webmanifest">>

Range(s) == {s[i] : i \in 1..Len(s)}

CacheNameOf(w) == IF w = W4 THEN CACHE_NAME ELSE OLD_CACHE_NAME
AssetsOf(w) == IF w = W4 THEN Range(ASSETS) ELSE Range(OLD_ASSETS)

\* Variant: the install listener does not call self.skipWaiting().
CallsSkipWaiting_Never(w) == FALSE

\* sw.js calls self.skipWaiting() in its install listener; the earlier
\* script does not.
CallsSkipWaiting(w) == w = W4

\* sw.js registers an activate listener; the earlier script has none.
HasActivateHandler(w) == w = W4

\* The requests pages issue, <<URL, method>>: an asset of both scripts, an
\* asset of sw.js only, an asset of the earlier script only (the stylesheet
\* without its query string), a URL that is no asset, and a non-GET request.
PageRequests ==
  { <<"/", "GET">>, <<"/static/styles.css?v=3", "GET">>,
    <<"/static/styles.css", "GET">>, <<"/unknown", "GET">>, <<"/", "POST">> }

\* ------------------------------------------------------------------- state
VARIABLES
  wstate,          \* worker version -> lifecycle state
  ipc,             \* worker version -> position inside its install promise chain
  fetched,         \* worker version -> assets the running addAll has fetched
  discarded,       \* worker version -> responses its rejected addAll threw away
  skipWaitingFlag, \* worker version -> skip waiting flag
  installResult,   \* worker version -> outcome of its latest install promise
  attempts,        \* worker version -> install events since it last installed
  storeBefore,     \* worker version -> the cache store when its install began
  storeFirst,      \* worker version -> the cache store when its first install began
  caches,          \* the cache store: generations in creation order
  apc,             \* position inside the activate promise chain of sw.js
  apending,        \* stale generations whose caches.delete is outstanding
  claimRequested,  \* clients.claim() has been called
  claimed,         \* open pages are controlled through clients.claim()
  requests         \* the fetch events dispatched so far, in order

vars == <<wstate, ipc, fetched, discarded, skipWaitingFlag, installResult, attempts,
          storeBefore, storeFirst, caches, apc, apending, claimRequested, claimed,
          requests>>

historyVars == <<storeFirst>>
installVars == <<ipc, fetched, discarded, installResult, attempts, storeBefore,
                 historyVars>>
activateVars == <<apc, apending, claimRequested, claimed>>

\* --------------------------------------------------------- the cache store
\* A generation is [name, entries]; an entry is the URL of a stored GET
\* request, and its stored response is identified by <<generation, URL>>.
Names(store) == {store[i].name : i \in 1..Len(store)}

IndexOf(store, n) == CHOOSE i \in 1..Len(store) : store[i].name = n

Entries(store, n) ==
  IF n \in Names(store) THEN store[IndexOf(store, n)].entries ELSE {}

\* Variant: open never finds the existing generation and creates another.
CachesOpen_AlwaysCreate(store, n) == Append(store, [name |-> n, entries |-> {}])

\* caches.open(name): create-if-absent, appended in creation order.
CachesOpen(store, n) ==
  IF n \in Names(store) THEN store
  ELSE Append(store, [name |-> n, entries |-> {}])

\* The URL without its query string.
StripQuery(u) == IF u = "/static/styles.css?v=3" THEN "/static/styles.css" ELSE u

\* Variant: every response is stored under its URL and also under the URL
\* without the query string.
AddAllPut_AlsoStripped(store, n, urls) ==
  [i \in 1..Len(store) |->
     IF store[i].name = n
     THEN [name |-> n,
           entries |-> store[i].entries \cup urls \cup {StripQuery(u) : u \in urls}]
     ELSE store[i]]

\* Variant: the batch is put into every generation of the store.
AddAllPut_AnyName(store, n, urls) ==
  [i \in 1..Len(store) |->
     [name |-> store[i].name, entries |-> store[i].entries \cup urls]]

\* cache.addAll(urls), once every response has arrived: one batch of puts.
AddAllPut(store, n, urls) ==
  [i \in 1..Len(store) |->
     IF store[i].name = n
     THEN [name |-> n, entries |-> store[i].entries \cup urls]
     ELSE store[i]]

\* caches.delete(name)
CachesDelete(store, n) == SelectSeq(store, LAMBDA g : g.name # n)

\* Responses: <<kind, generation, url>>.
NoResponse == <<"none", "", "">>
NetworkError == <<"error", "", "">>
CachedResponse(n, u) == <<"cached", n, u>>
NetworkResponse(u) == <<"network", "", u>>

\* Variant: the lookup ignores the query string (ignoreSearch).
EntryMatches_IgnoreSearch(g, url, method) ==
  method = "GET" /\ \E e \in g.entries : StripQuery(e) = StripQuery(url)

\* Does generation g hold an entry matching the request (URL with its query
\* string, GET only)?
EntryMatches(g, url, method) == method = "GET" /\ url \in g.entries

\* caches.match(request): the first generation, in creation order, that
\* holds a matching entry answers; undefined (NoResponse) when none does.
CachesMatch(store, url, method) ==
  LET hits == {i \in 1..Len(store) : EntryMatches(store[i], url, method)}
  IN  IF hits = {} THEN NoResponse
      ELSE LET first == CHOOSE i \in hits : \A j \in hits : i <= j
           IN  CachedResponse(store[first].name, url)

\* -------------------------------------------------------------------- Init
Init ==
  /\ wstate = [w \in Workers |-> "parsed"]
  /\ ipc = [w \in Workers |-> "idle"]
  /\ fetched = [w \in Workers |-> {}]
  /\ discarded = [w \in Workers |-> 0]
  /\ skipWaitingFlag = [w \in Workers |-> FALSE]
  /\ installResult = [w \in Workers |-> "none"]
  /\ attempts = [w \in Workers |-> 0]
  /\ storeBefore = [w \in Workers |-> <<>>]
  /\ storeFirst = [w \in Workers |-> <<>>]
  /\ caches = <<>>
  /\ apc = "idle"
  /\ apending = {}
  /\ claimRequested = FALSE
  /\ claimed = FALSE
  /\ requests = <<>>

\* ------------------------------------------------------- browser lifecycle
\* The registration's active worker, if any.
ActiveWorkers == {w \in Workers : wstate[w] \in {"activating", "activated"}}

\* Fetch events of worker w whose respondWith promise has not settled.
PendingEvents(w) ==
  {i \in 1..Len(requests) : requests[i].worker = w /\ requests[i].pc # "done"}

\* The earlier script is installed only while it is the deployed script;
\* sw.js replaces it, and the registration runs one install job at a time.
MayInstall(w) ==
  IF w = W1
  THEN wstate[W4] = "parsed" /\ attempts[W4] = 0
  ELSE wstate[W1] \in {"parsed", "activated", "redundant"}

\* install listener, synchronous part: event.waitUntil(caches.open(...)...)
\* registers the promise, self.skipWaiting() sets the flag.
InstallEvent(w) ==
  /\ wstate[w] = "parsed"
  /\ attempts[w] < MaxAttempts
  /\ MayInstall(w)
  /\ wstate' = [wstate EXCEPT ![w] = "installing"]
  /\ ipc' = [ipc EXCEPT ![w] = "opening"]
  /\ fetched' = [fetched EXCEPT ![w] = {}]
  /\ discarded' = [discarded EXCEPT ![w] = 0]
  /\ skipWaitingFlag' = [skipWaitingFlag EXCEPT ![w] = CallsSkipWaiting(w)]
  /\ installResult' = [installResult EXCEPT ![w] = "none"]
  /\ attempts' = [attempts EXCEPT ![w] = @ + 1]
  /\ storeBefore' = [storeBefore EXCEPT ![w] = caches]
  /\ storeFirst' = IF attempts[w] = 0
                   THEN [storeFirst EXCEPT ![w] = caches] ELSE storeFirst
  /\ UNCHANGED <<caches, activateVars, requests>>

\* caches.open(CACHE_NAME) resolves.
InstallOpen(w) ==
  /\ wstate[w] = "installing"
  /\ ipc[w] = "opening"
  /\ caches' = CachesOpen(caches, CacheNameOf(w))
  /\ ipc' = [ipc EXCEPT ![w] = "adding"]
  /\ UNCHANGED <<wstate, fetched, discarded, historyVars, skipWaitingFlag, installResult,
                 attempts, storeBefore, activateVars, requests>>

\* cache.addAll: the fetch of one asset succeeds.
AddAllFetchOk(w, u) ==
  /\ wstate[w] = "installing"
  /\ ipc[w] = "adding"
  /\ u \in AssetsOf(w) \ fetched[w]
  /\ fetched' = [fetched EXCEPT ![w] = @ \cup {u}]
  /\ UNCHANGED <<wstate, ipc, discarded, historyVars, skipWaitingFlag, installResult,
                 attempts, storeBefore, caches, activateVars, requests>>

\* Variant: assets are stored one by one as they arrive, so those fetched
\* before the failure stay in the generation.
AddAllOnFailure_Partial(store, n, got) == AddAllPut(store, n, got)

\* What addAll stores when the fetch of one asset fails: nothing.
AddAllOnFailure(store, n, got) == store

\* Variant: the rejection of addAll is caught, so the promise given to
\* waitUntil resolves although an asset is missing.
AddAllFetchFail_Caught(w, u) ==
  /\ wstate[w] = "installing"
  /\ ipc[w] = "adding"
  /\ u \in AssetsOf(w) \ fetched[w]
  /\ ipc' = [ipc EXCEPT ![w] = "resolved"]
  /\ installResult' = [installResult EXCEPT ![w] = "failed"]
  /\ UNCHANGED <<wstate, fetched, discarded, historyVars, skipWaitingFlag, attempts,
                 storeBefore, caches, activateVars, requests>>

\* cache.addAll: the fetch of one asset fails; addAll rejects, the promise
\* given to waitUntil rejects, and the browser discards the worker.
AddAllFetchFail(w, u) ==
  /\ wstate[w] = "installing"
  /\ ipc[w] = "adding"
  /\ u \in AssetsOf(w) \ fetched[w]
  /\ caches' = AddAllOnFailure(caches, CacheNameOf(w), fetched[w])
  /\ ipc' = [ipc EXCEPT ![w] = "idle"]
  /\ wstate' = [wstate EXCEPT ![w] = "redundant"]
  /\ installResult' = [installResult EXCEPT ![w] = "failed"]
  /\ fetched' = [fetched EXCEPT ![w] = {}]
  /\ discarded' = [discarded EXCEPT ![w] = Cardinality(fetched[w])]
  /\ UNCHANGED <<historyVars, skipWaitingFlag, attempts, storeBefore,
                 activateVars, requests>>

\* Variant: the batch misses the last asset of the list.
AddAllStored_DropLast(w) == fetched[w] \ {ASSETS[Len(ASSETS)]}

\* The URLs addAll stores once every fetch has succeeded.
AddAllStored(w) == fetched[w]

\* cache.addAll: every asset is fetched; the batch is stored and the promise
\* given to waitUntil resolves.
AddAllCommit(w) ==
  /\ wstate[w] = "installing"
  /\ ipc[w] = "adding"
  /\ fetched[w] = AssetsOf(w)
  /\ caches' = AddAllPut(caches, CacheNameOf(w), AddAllStored(w))
  /\ ipc' = [ipc EXCEPT ![w] = "resolved"]
  /\ installResult' = [installResult EXCEPT ![w] = "ok"]
  /\ UNCHANGED <<wstate, fetched, discarded, historyVars, skipWaitingFlag, attempts,
                 storeBefore, activateVars, requests>>

\* Variant: the promise is not handed to waitUntil, so the install event
\* is over as soon as the listener returns.
InstallSettled_NoWait(w) == ipc[w] # "idle"

\* event.waitUntil in the install listener: the browser leaves the
\* installing state only when the promise has resolved.
InstallSettled(w) == ipc[w] = "resolved"

InstallFinish(w) ==
  /\ wstate[w] = "installing"
  /\ InstallSettled(w)
  /\ wstate' = [wstate EXCEPT ![w] = "installed"]
  /\ ipc' = [ipc EXCEPT ![w] = "idle"]
  /\ attempts' = [attempts EXCEPT ![w] = 0]
  /\ UNCHANGED <<fetched, discarded, historyVars, skipWaitingFlag, installResult,
                 storeBefore, caches, activateVars, requests>>

\* The browser terminates the worker while its install event is pending, at
\* any point of the promise chain: the responses addAll holds are lost, what
\* the store already holds stays, and the worker is discarded.
InstallTerminate(w) ==
  /\ wstate[w] = "installing"
  /\ wstate' = [wstate EXCEPT ![w] = "redundant"]
  /\ installResult' = [installResult EXCEPT ![w] = "terminated"]
  /\ ipc' = [ipc EXCEPT ![w] = "idle"]
  /\ fetched' = [fetched EXCEPT ![w] = {}]
  /\ UNCHANGED <<discarded, storeFirst, skipWaitingFlag, attempts, storeBefore,
                 caches, activateVars, requests>>

\* After a failed or terminated install the browser installs the script
\* again, from scratch, at the next registration or update.
InstallRetry(w) ==
  /\ wstate[w] = "redundant"
  /\ installResult[w] \in {"failed", "terminated"}
  /\ attempts[w] < MaxAttempts
  /\ MayInstall(w)
  /\ wstate' = [wstate EXCEPT ![w] = "parsed"]
  /\ UNCHANGED <<installVars, skipWaitingFlag, caches, activateVars, requests>>

\* A waiting worker is activated when there is no active worker, or when it
\* asked to skip waiting and the active worker has no pending events.
MayActivate(w) ==
  \/ ActiveWorkers = {}
  \/ /\ skipWaitingFlag[w]
     /\ \A a \in ActiveWorkers : wstate[a] = "activated" /\ PendingEvents(a) = {}

\* Activation: the active worker is replaced, the worker becomes activating
\* and the activate event is dispatched.  activate listener, synchronous
\* part: event.waitUntil(caches.keys()...) registers the promise and
\* self.clients.claim() is called.
Activate(w) ==
  /\ wstate[w] = "installed"
  /\ MayActivate(w)
  /\ wstate' = [v \in Workers |->
                  IF v = w THEN "activating"
                  ELSE IF v \in ActiveWorkers THEN "redundant"
                  ELSE wstate[v]]
  /\ apc' = IF HasActivateHandler(w) THEN "keys" ELSE apc
  /\ claimRequested' = (claimRequested \/ HasActivateHandler(w))
  /\ UNCHANGED <<installVars, skipWaitingFlag, caches, apending, claimed,
                 requests>>

\* Variant: every key is deleted.
StaleKeys_All(keys) == keys

\* Variant: the comparison of the key with CACHE_NAME is inverted.
StaleKeys_Inverted(keys) == {k \in keys : k = CACHE_NAME}

\* The generations the activate listener deletes, given the names that
\* caches.keys() returned.
StaleKeys(keys) == {k \in keys : k # CACHE_NAME}

\* caches.keys() resolves; keys.map starts caches.delete for every stale key.
ActivateKeys ==
  /\ wstate[W4] = "activating"
  /\ apc = "keys"
  /\ apending' = StaleKeys(Names(caches))
  /\ apc' = "deleting"
  /\ UNCHANGED <<wstate, installVars, skipWaitingFlag, caches, claimRequested,
                 claimed, requests>>

\* One caches.delete(key) completes.
ActivateDelete(k) ==
  /\ wstate[W4] = "activating"
  /\ apc = "deleting"
  /\ k \in apending
  /\ caches' = CachesDelete(caches, k)
  /\ apending' = apending \ {k}
  /\ UNCHANGED <<wstate, installVars, skipWaitingFlag, apc, claimRequested,
                 claimed, requests>>

\* Variant: the deletions are not handed to waitUntil.
ActivateSettled_NoWait(w) == TRUE

\* event.waitUntil in the activate listener: Promise.all has resolved.  A
\* worker without an activate listener has nothing to wait for.
ActivateSettled(w) ==
  IF HasActivateHandler(w) THEN apc = "deleting" /\ apending = {} ELSE TRUE

ActivateFinish(w) ==
  /\ wstate[w] = "activating"
  /\ ActivateSettled(w)
  /\ wstate' = [wstate EXCEPT ![w] = "activated"]
  /\ apc' = IF HasActivateHandler(w) THEN "done" ELSE apc
  /\ UNCHANGED <<installVars, skipWaitingFlag, caches, apending,
                 claimRequested, claimed, requests>>

\* May the claim requested by self.clients.claim() take effect?  The call is
\* not chained to the deletions: it only needs the worker to be active.
ClaimReady == claimRequested /\ W4 \in ActiveWorkers

\* clients.claim() takes effect: open pages become controlled by the worker.
ClientsClaim ==
  /\ ClaimReady
  /\ ~claimed
  /\ claimed' = TRUE
  /\ UNCHANGED <<wstate, installVars, skipWaitingFlag, caches, apc, apending,
                 claimRequested, requests>>

\* ------------------------------------------------------------ fetch events
\* Variant: fetch events are dispatched to the worker while it is still
\* activating.
HandlesFetch_WhileActivating(w) == wstate[w] \in {"activating", "activated"}

\* Fetch events go to the active worker once it is activated (the browser
\* holds them back while it is activating).
HandlesFetch(w) == wstate[w] = "activated"

\* fetch listener, synchronous part: event.respondWith(caches.match(...)...)
FetchEvent(w, url, method) ==
  /\ HandlesFetch(w)
  /\ Len(requests) < MaxRequests
  /\ requests' = Append(requests,
       [worker |-> w, url |-> url, method |-> method, pc |-> "matching",
        cached |-> NoResponse, out |-> NoResponse, resp |-> NoResponse,
        net |-> 0])
  /\ UNCHANGED <<wstate, installVars, skipWaitingFlag, caches, activateVars>>

\* Variant: network first, the cached response is ignored.
GoesToNetwork_Always(cached) == TRUE

\* .then((cached) => cached || fetch(event.request)): is the network used?
GoesToNetwork(cached) == cached = NoResponse

\* Variant: the handlers share one module-level slot for the last cached
\* response, and a handler answers with it when it is set.
FetchMatch_SharedSlot(i) ==
  /\ i \in 1..Len(requests)
  /\ requests[i].pc = "matching"
  /\ LET r == requests[i]
         earlier == {j \in 1..Len(requests) : requests[j].resp[1] = "cached"}
         cached == IF earlier # {}
                   THEN requests[CHOOSE j \in earlier : TRUE].resp
                   ELSE CachesMatch(caches, r.url, r.method)
     IN  requests' = [requests EXCEPT ![i] =
           IF GoesToNetwork(cached)
           THEN [r EXCEPT !.cached = cached, !.pc = "network", !.net = @ + 1]
           ELSE [r EXCEPT !.cached = cached, !.pc = "done", !.resp = cached]]
  /\ UNCHANGED <<wstate, installVars, skipWaitingFlag, caches, activateVars>>

\* caches.match resolves and the .then callback runs.
FetchMatch(i) ==
  /\ i \in 1..Len(requests)
  /\ requests[i].pc = "matching"
  /\ LET r == requests[i]
         cached == CachesMatch(caches, r.url, r.method)
     IN  requests' = [requests EXCEPT ![i] =
           IF GoesToNetwork(cached)
           THEN [r EXCEPT !.cached = cached, !.pc = "network", !.net = @ + 1]
           ELSE [r EXCEPT !.cached = cached, !.pc = "done", !.resp = cached]]
  /\ UNCHANGED <<wstate, installVars, skipWaitingFlag, caches, activateVars>>

\* Variant: a failed network fetch is answered with a generic fallback
\* response instead of the failure.
FetchSettle_Fallback(r) ==
  [r EXCEPT !.pc = "done",
            !.resp = IF r.out = NetworkError THEN NetworkResponse("/") ELSE r.out]

\* Variant: a failed network fetch is retried once.
FetchSettle_Retry(r) ==
  IF r.out = NetworkError /\ r.net < 2
  THEN [r EXCEPT !.pc = "network", !.net = @ + 1]
  ELSE [r EXCEPT !.pc = "done", !.resp = r.out]

\* The handler once its network fetch has settled with outcome r.out:
\* respondWith settles with that outcome.
FetchSettle(r) == [r EXCEPT !.pc = "done", !.resp = r.out]

\* Variant: the network response of a cache miss is written back.
FetchWriteBack_Put(store, r) ==
  IF r.out = NetworkError THEN store
  ELSE AddAllPut(CachesOpen(store, CACHE_NAME), CACHE_NAME, {r.url})

\* The store after the network fetch of a cache miss has settled: no
\* write-back.
FetchWriteBack(store, r) == store

\* fetch(event.request) settles, with a response or with a failure.
FetchNetwork(i, ok) ==
  /\ i \in 1..Len(requests)
  /\ requests[i].pc = "network"
  /\ LET out == IF ok THEN NetworkResponse(requests[i].url) ELSE NetworkError
         r == [requests[i] EXCEPT !.out = out]
     IN  /\ requests' = [requests EXCEPT ![i] = FetchSettle(r)]
         /\ caches' = FetchWriteBack(caches, r)
  /\ UNCHANGED <<wstate, installVars, skipWaitingFlag, activateVars>>

\* -------------------------------------------------------------------- Next
Next ==
  \/ \E w \in Workers : InstallEvent(w)
  \/ \E w \in Workers : InstallOpen(w)
  \/ \E w \in Workers : \E u \in AssetsOf(w) : AddAllFetchOk(w, u)
  \/ \E w \in Workers : \E u \in AssetsOf(w) : AddAllFetchFail(w, u)
  \/ \E w \in Workers : AddAllCommit(w)
  \/ \E w \in Workers : InstallFinish(w)
  \/ \E w \in Workers : InstallRetry(w)
  \/ \E w \in Workers : Activate(w)
  \/ ActivateKeys
  \/ \E k \in apending : ActivateDelete(k)
  \/ \E w \in Workers : ActivateFinish(w)
  \/ ClientsClaim
  \/ \E w \in Workers : \E q \in PageRequests : FetchEvent(w, q[1], q[2])
  \/ \E i \in 1..MaxRequests : FetchMatch(i)
  \/ \E i \in 1..MaxRequests : \E ok \in BOOLEAN : FetchNetwork(i, ok)

Spec == Init /\ [][Next]_vars

\* The browser's event loop is fair to the work sw.js has pending: a settled
\* promise gets its continuation run, a fetch handler in flight gets its
\* cache lookup and its network outcome, and a waiting worker that may
\* activate is activated.
Fairness ==
  /\ WF_vars(InstallFinish(W4))
  /\ WF_vars(Activate(W4))
  /\ WF_vars(ActivateKeys)
  /\ WF_vars(\E k \in apending : ActivateDelete(k))
  /\ WF_vars(ActivateFinish(W4))
  /\ WF_vars(\E i \in 1..MaxRequests : FetchMatch(i))
  /\ WF_vars(\E i \in 1..MaxRequests : \E ok \in BOOLEAN : FetchNetwork(i, ok))

FairSpec == Init /\ [][Next]_vars /\ Fairness

\* The same program in a browser that may also terminate the worker of sw.js
\* while its install event is pending.
NextT ==
  \/ Next
  \/ InstallTerminate(W4)

SpecT == Init /\ [][NextT]_vars

\* ------------------------------------------------------------------ claims
AllAssetsStored ==
  \E k \in 1..Len(caches) :
    /\ caches[k].name = CACHE_NAME
    /\ \A a \in 1..Len(ASSETS) : EntryMatches(caches[k], ASSETS[a], "GET")

StaleNames == Names(caches) \ {CACHE_NAME}

Done(i) == requests[i].pc = "done"

\* C1: once the install promise of sw.js has resolved, the generation named
\* CACHE_NAME holds an entry matching every URL of ASSETS.
C1_InstallStoresAssets == installResult[W4] = "ok" => AllAssetsStored

C1_Witness ==
  /\ installResult[W4] = "ok"
  /\ wstate[W4] = "installed"
  /\ OLD_CACHE_NAME \in Names(caches)

\* C2: when the fetch of an asset failed during the install of sw.js, no
\* generation that is new since the install began is populated: the
\* CACHE_NAME generation the install created holds none of the assets, also
\* not those whose fetch had succeeded, no other generation is new, and
\* every generation that existed when the install began is still in the
\* store with the entries it had then.
C2_FailedInstallLeavesNothing ==
  installResult[W4] = "failed" =>
    /\ CACHE_NAME \notin Names(storeBefore[W4]) =>
         \A a \in 1..Len(ASSETS) : ASSETS[a] \notin Entries(caches, CACHE_NAME)
    /\ Names(caches) \subseteq Names(storeBefore[W4]) \cup {CACHE_NAME}
    /\ \A k \in 1..Len(storeBefore[W4]) :
         /\ storeBefore[W4][k].name \in Names(caches)
         /\ Entries(caches, storeBefore[W4][k].name) = storeBefore[W4][k].entries

C2_Witness ==
  /\ installResult[W4] = "failed"
  /\ discarded[W4] > 0
  /\ OLD_CACHE_NAME \in Names(storeBefore[W4])
  /\ CACHE_NAME \notin Names(storeBefore[W4])
  /\ CACHE_NAME \in Names(caches)

\* C3: once the activation of sw.js has completed, the generation names in
\* the store are exactly {CACHE_NAME}, in this state and in every state
\* reached afterwards, whatever fetch events are handled.
C3_OnlyCurrentGeneration ==
  wstate[W4] = "activated" => Names(caches) = {CACHE_NAME}

C3_Witness ==
  /\ wstate[W4] = "activated"
  /\ OLD_CACHE_NAME \in Names(storeBefore[W4])
  /\ \E i \in 1..Len(requests) : requests[i].worker = W4 /\ Done(i)

\* C4: when caches.match resolves for a request that matches an entry of
\* some generation in the store, the handler is done at once, its response
\* is the cached response of such an entry, and it has made no network
\* fetch; a request answered from the cache never counts a network fetch.
C4_HitAnsweredFromCache ==
  [][\A i \in 1..Len(requests) :
       /\ ( /\ requests[i].pc = "matching"
            /\ requests'[i].pc # "matching"
            /\ \E k \in 1..Len(caches) :
                 EntryMatches(caches[k], requests[i].url, requests[i].method) )
          => /\ requests'[i].pc = "done"
             /\ requests'[i].net = 0
             /\ \E k \in 1..Len(caches) :
                  /\ EntryMatches(caches[k], requests[i].url, requests[i].method)
                  /\ requests'[i].resp =
                       CachedResponse(caches[k].name, requests[i].url)
       /\ (requests'[i].resp[1] = "cached" => requests'[i].net = 0)
    ]_vars

C4_Witness ==
  \E i \in 1..Len(requests) :
    Done(i) /\ requests[i].resp[1] = "cached" /\ requests[i].net = 0

\* C5: when caches.match resolves for a request that matches no entry in
\* the store, the handler starts one network fetch; when that fetch settles
\* the handler is done, has made exactly one network fetch, and its response
\* is the outcome of that fetch (the response, or the failure).
C5_MissAnsweredByNetwork ==
  [][\A i \in 1..Len(requests) :
       /\ ( /\ requests[i].pc = "matching"
            /\ requests'[i].pc # "matching"
            /\ \A k \in 1..Len(caches) :
                 ~EntryMatches(caches[k], requests[i].url, requests[i].method) )
          => requests'[i].pc = "network" /\ requests'[i].net = 1
       /\ ( requests[i].pc = "network" /\ requests'[i] # requests[i] )
          => /\ requests'[i].pc = "done"
             /\ requests'[i].net = 1
             /\ requests'[i].out \in
                  {NetworkResponse(requests[i].url), NetworkError}
             /\ requests'[i].resp = requests'[i].out
    ]_vars

C5_Witness ==
  \E i \in 1..Len(requests) :
    /\ Done(i) /\ requests[i].net = 1
    /\ requests[i].resp = NetworkResponse(requests[i].url)
    /\ Len(caches) > 0

\* C6: no step of a fetch handler (the event, the cache lookup, the
\* settling of the network fetch with a response or with a failure) changes
\* the cache store.
C6_FetchLeavesStore ==
  [][requests' # requests => caches' = caches]_vars

C6_Witness ==
  /\ Len(caches) > 0
  /\ \E i \in 1..Len(requests) : Done(i) /\ requests[i].resp[1] = "cached"
  /\ \E i \in 1..Len(requests) : Done(i) /\ requests[i].resp[1] = "network"

\* C7 (as stated): the worker holds claimed clients only when no generation
\* other than CACHE_NAME is in the store.
C7_ClaimOnlyAfterDeletes == claimed => StaleNames = {}

\* C7 (amended): the worker can hold claimed clients while a stale
\* generation is in the store, but only while it is activating: it is not
\* activated, and has handled no fetch event, before every stale generation
\* is deleted.
C7_StaleWhileClaimedOnlyActivating ==
  (claimed /\ StaleNames # {}) =>
    /\ wstate[W4] = "activating"
    /\ \A i \in 1..Len(requests) : requests[i].worker # W4

C7_Witness ==
  /\ claimed
  /\ StaleNames # {}
  /\ wstate[W4] = "activating"

\* C8: sw.js leaves the installing state for installed only with every
\* asset stored, and starts activating only from installed with every asset
\* stored, although the skip waiting flag is set from the start of install.
C8_InstallHeldUntilStored ==
  [][ /\ (wstate[W4] = "installing" /\ wstate'[W4] = "installed")
         => (AllAssetsStored /\ skipWaitingFlag[W4])
      /\ (wstate[W4] # "activating" /\ wstate'[W4] = "activating")
         => (wstate[W4] = "installed" /\ AllAssetsStored)
      /\ (wstate[W4] = "installing" => wstate'[W4] # "activating")
    ]_vars

C8_Witness ==
  /\ wstate[W4] = "activating"
  /\ skipWaitingFlag[W4]
  /\ wstate[W1] = "redundant"
  /\ installResult[W1] = "ok"

\* C9: while the latest install of sw.js is a failed one, the worker is not
\* installed, activating or activated, its activate listener has not run
\* (no claim, no deletion), no step deletes a generation or changes its
\* entries, and an earlier worker that was active stays activated with its
\* generation in the store.
C9_FailedInstallNeverActivates ==
  /\ [](installResult[W4] = "failed" =>
          /\ wstate[W4] \in {"redundant", "parsed"}
          /\ apc = "idle" /\ ~claimRequested /\ ~claimed
          /\ (installResult[W1] = "ok" =>
                /\ HandlesFetch(W1)
                /\ Entries(caches, OLD_CACHE_NAME) = Range(OLD_ASSETS)))
  /\ [][installResult[W4] = "failed" =>
          /\ wstate'[W4] \in {"redundant", "parsed", "installing"}
          /\ \A k \in 1..Len(caches) :
               /\ caches[k].name \in Names(caches')
               /\ Entries(caches', caches[k].name) = caches[k].entries
     ]_vars

C9_Witness ==
  /\ installResult[W4] = "failed"
  /\ wstate[W4] = "redundant"
  /\ installResult[W1] = "ok"
  /\ \E i \in 1..Len(requests) :
       /\ Done(i) /\ requests[i].worker = W1
       /\ requests[i].resp = CachedResponse(OLD_CACHE_NAME, "/static/styles.css")

\* C10: a request whose network fetch failed is done, its response is the
\* failure, it has made one network fetch and no second one, and the step
\* in which the fetch failed stores nothing.
C10_NetworkFailurePropagates ==
  /\ [](\A i \in 1..Len(requests) :
          requests[i].out = NetworkError =>
            /\ Done(i)
            /\ requests[i].resp = NetworkError
            /\ requests[i].net = 1)
  /\ [][\A i \in 1..Len(requests) :
          (requests[i].out # NetworkError /\ requests'[i].out = NetworkError)
            => caches' = caches
     ]_vars

C10_Witness ==
  \E i \in 1..Len(requests) :
    /\ requests[i].worker = W4
    /\ requests[i].resp = NetworkError
    /\ requests[i].cached = NoResponse

\* What a handler that runs alone does in one step with request r against
\* the store: on a hit it is done with the cached response of the first
\* generation holding a matching entry; on a miss it starts one network
\* fetch; a started network fetch settles with the response or the failure.
FirstHit(store, r) ==
  {k \in 1..Len(store) :
     /\ EntryMatches(store[k], r.url, r.method)
     /\ \A j \in 1..(k - 1) : ~EntryMatches(store[j], r.url, r.method)}

HandledAlone(store, r) ==
  IF r.pc = "matching"
  THEN IF FirstHit(store, r) = {}
       THEN {[r EXCEPT !.pc = "network", !.net = 1]}
       ELSE {[r EXCEPT !.pc = "done",
                       !.cached = CachedResponse(store[k].name, r.url),
                       !.resp = CachedResponse(store[k].name, r.url)] :
               k \in FirstHit(store, r)}
  ELSE IF r.pc = "network"
  THEN {[r EXCEPT !.pc = "done", !.out = o, !.resp = o] :
          o \in {NetworkResponse(r.url), NetworkError}}
  ELSE {}

\* C11: in every interleaving of the fetch handlers, a step of one handler
\* leaves every other request as it is, and takes its own request to what a
\* handler running alone against the same store and network would produce.
C11_HandlersIndependent ==
  [][\A i \in 1..Len(requests) :
       requests'[i] # requests[i] =>
         /\ \A j \in 1..Len(requests) : j # i => requests'[j] = requests[j]
         /\ requests'[i] \in HandledAlone(caches, requests[i])
    ]_vars

\* Two requests in flight at once, the later one answered first.
C11_Witness ==
  /\ Len(requests) >= 2
  /\ requests[1].pc = "network"
  /\ Done(2)
  /\ requests[2].resp[1] = "cached"
  /\ requests[1].url = requests[2].url

\* C12: when the install promise of sw.js has resolved and the store was
\* empty when that install began, the store is exactly one generation, named
\* CACHE_NAME, whose entries are the URLs of ASSETS, one each, and no other.
C12_FreshInstallExactStore ==
  (installResult[W4] = "ok" /\ storeBefore[W4] = <<>>) =>
    /\ Len(caches) = 1
    /\ caches[1].name = CACHE_NAME
    /\ caches[1].entries = Range(ASSETS)
    /\ Cardinality(caches[1].entries) = Len(ASSETS)

C12_Witness ==
  /\ installResult[W4] = "ok"
  /\ storeBefore[W4] = <<>>
  /\ wstate[W4] = "installed"
  /\ Len(caches) = 1

\* The store one uninterrupted successful install of worker w produces from
\* the store it starts with.
UninterruptedInstall(store, w) ==
  LET n == CacheNameOf(w)
      opened == IF \E k \in 1..Len(store) : store[k].name = n
                THEN store ELSE store \o <<[name |-> n, entries |-> {}]>>
  IN  [k \in 1..Len(opened) |->
         IF opened[k].name = n
         THEN [name |-> n, entries |-> opened[k].entries \cup AssetsOf(w)]
         ELSE opened[k]]

\* C13: when an install of sw.js has succeeded, whatever terminated or failed
\* installs came before it, the store (until activation sweeps it) equals the
\* store one uninterrupted successful install produces from the store the
\* first install started with.
C13_InstallFromScratch ==
  (installResult[W4] = "ok" /\ wstate[W4] \in {"installing", "installed"}) =>
    caches = UninterruptedInstall(storeFirst[W4], W4)

\* A successful install that began with the batch of a terminated install
\* already in the store, next to the generation of the earlier worker.
C13_Witness ==
  /\ installResult[W4] = "ok"
  /\ wstate[W4] = "installed"
  /\ Entries(storeBefore[W4], CACHE_NAME) = Range(ASSETS)
  /\ OLD_CACHE_NAME \in Names(storeFirst[W4])
  /\ CACHE_NAME \notin Names(storeFirst[W4])

\* C14: under fair scheduling, an install of sw.js whose promise resolved is
\* followed by a completed activation with no stale generation left, also
\* when the earlier worker is active and serving pages.
C14_InstalledEventuallyActivated ==
  (installResult[W4] = "ok") ~> (wstate[W4] = "activated" /\ StaleNames = {})

\* sw.js activated over an earlier worker that was active and had served a
\* page.
C14_Witness ==
  /\ wstate[W4] = "activated"
  /\ StaleNames = {}
  /\ wstate[W1] = "redundant"
  /\ installResult[W1] = "ok"
  /\ \E i \in 1..Len(requests) : requests[i].worker = W1 /\ Done(i)

\* The requests of the claim's example: the stylesheet without its query
\* string, and a non-GET request for the main page.
IsNearMiss(r) ==
  \/ r.url = "/static/styles.css" /\ r.method = "GET"
  \/ r.url = "/" /\ r.method # "GET"

\* C15: a handler answers from the cache only when the request is a GET and
\* some generation in the store holds an entry with exactly its URL, query
\* string included; in the fetch listener of sw.js a request for the
\* stylesheet without "?v=3", or a non-GET request for "/", goes to the
\* network and is answered by it.
C15_MatchByUrlAndMethod ==
  /\ [][\A i \in 1..Len(requests) :
          (requests[i].pc = "matching" /\ requests'[i].resp[1] = "cached") =>
            /\ requests[i].method = "GET"
            /\ \E k \in 1..Len(caches) : requests[i].url \in caches[k].entries
            /\ requests'[i].resp[3] = requests[i].url
     ]_vars
  /\ [](\A i \in 1..Len(requests) :
          (requests[i].worker = W4 /\ IsNearMiss(requests[i])) =>
            /\ requests[i].cached = NoResponse
            /\ requests[i].pc # "matching" => requests[i].net = 1
            /\ Done(i) => requests[i].resp = requests[i].out
            /\ Done(i) => requests[i].resp[1] \in {"network", "error"})

C15_Witness ==
  /\ AllAssetsStored
  /\ \E i \in 1..Len(requests) :
       /\ requests[i].worker = W4 /\ Done(i)
       /\ requests[i].url = "/static/styles.css" /\ requests[i].method = "GET"
       /\ requests[i].resp = NetworkResponse("/static/styles.css")
  /\ \E i \in 1..Len(requests) :
       /\ requests[i].worker = W4 /\ Done(i)
       /\ requests[i].url = "/" /\ requests[i].method = "POST"
       /\ requests[i].resp = NetworkResponse("/")

\* C16: every response the fetch listener of sw.js has served from the cache
\* is an entry of the CACHE_NAME generation, and sw.js handles no fetch event
\* while a stale generation is in the store.
C16_ServedFromCurrentGeneration ==
  \A i \in 1..Len(requests) :
    requests[i].worker = W4 =>
      /\ StaleNames = {}
      /\ requests[i].cached # NoResponse =>
           /\ requests[i].cached = CachedResponse(CACHE_NAME, requests[i].url)
           /\ requests[i].resp = requests[i].cached

\* sw.js answers "/" from its own generation although the earlier
\* generation, created first, also held "/" when sw.js was installed.
C16_Witness ==
  /\ "/" \in Entries(storeBefore[W4], OLD_CACHE_NAME)
  /\ \E i \in 1..Len(requests) :
       /\ requests[i].worker = W4
       /\ requests[i].resp = CachedResponse(CACHE_NAME, "/")

\* The generations of store s other than CACHE_NAME are in store t with the
\* same entries, and no generation of s is missing from t.
OthersIntact(s, t) ==
  \A k \in 1..Len(s) :
    /\ s[k].name \in Names(t)
    /\ s[k].name # CACHE_NAME => Entries(t, s[k].name) = s[k].entries

\* C17: no step of the install of sw.js, successful or failed, deletes a
\* generation or changes the entries of a generation other than CACHE_NAME;
\* until sw.js activates, the generations that were there when its install
\* began are intact.
C17_InstallLeavesOthers ==
  /\ [][(\/ ipc'[W4] # ipc[W4]
         \/ fetched'[W4] # fetched[W4]
         \/ installResult'[W4] # installResult[W4])
        => OthersIntact(caches, caches')]_vars
  /\ []((attempts[W4] > 0 \/ wstate[W4] = "installed")
          => OthersIntact(storeBefore[W4], caches))

C17_Witness ==
  /\ wstate[W4] = "installed"
  /\ wstate[W1] = "activated"
  /\ Entries(storeBefore[W4], OLD_CACHE_NAME) = Range(OLD_ASSETS)
  /\ Entries(caches, OLD_CACHE_NAME) = Range(OLD_ASSETS)

\* C18: while sw.js is activating and once it is activated, the CACHE_NAME
\* generation is in the store with exactly the assets the install stored,
\* and no step of the activate listener changes that generation.
C18_ActivateKeepsCurrent ==
  /\ [](wstate[W4] \in {"activating", "activated"} =>
          /\ CACHE_NAME \in Names(caches)
          /\ Entries(caches, CACHE_NAME) = Range(ASSETS))
  /\ [][(apc' # apc \/ apending' # apending) =>
          /\ CACHE_NAME \in Names(caches')
          /\ Entries(caches', CACHE_NAME) = Entries(caches, CACHE_NAME)]_vars

C18_Witness ==
  /\ wstate[W4] = "activated"
  /\ apc = "done"
  /\ OLD_CACHE_NAME \in Names(storeBefore[W4])
  /\ OLD_CACHE_NAME \notin Names(caches)
  /\ Entries(caches, CACHE_NAME) = Range(ASSETS)

====
